---- MODULE Spec2Model ----
(***************************************************************************)
(* A model of MockFirestoreQuery (src/src/firestore-query.js): the query   *)
(* builder (where / orderBy / limit / startAfter / clone), the evaluation  *)
(* _results, the deferred get(), the live subscription onSnapshot and the  *)
(* auto-flush setting, over a heap of query objects that share flush       *)
(* queues.  The flush queue (./queue), the promise library and the error   *)
(* injection entry point are collaborators whose code is not part of the   *)
(* file; they are modelled from the specification's description.           *)
(***************************************************************************)
EXTENDS Integers, Sequences, FiniteSets, TLC

(***************************************************************************)
(* Bounds of the model.                                                    *)
(***************************************************************************)
MaxBuilt == 4        \* query objects a builder chain allocates
MaxPromises == 2     \* futures created by get() in a behaviour
MaxSubs == 1         \* onSnapshot subscriptions in a behaviour
MaxNest == 0         \* nested flushes inside one flush before the stack overflows
MaxInject == 1       \* 'get' errors injected in a behaviour
MaxTimers == 1       \* delayed flushes (setTimeout) pending at once
MaxCalls == 2        \* invocations of one subscriber's error-callback

VARIABLES
  queries,    \* the heap of MockFirestoreQuery objects, by creation order
  queues,     \* the Queue objects: queued work units and post-flush listeners
  promises,   \* the futures returned by get()
  subs,       \* the onSnapshot closures (err, context, callbacks' history)
  micro,      \* promise reactions (then-callbacks) scheduled, not yet run
  timers,     \* queues whose flush waits on a timer (numeric delay)
  ret,        \* what the last operation returned or threw
  flushed,    \* the queues drained during the last step
  injected,   \* number of 'get' errors registered so far
  stack,      \* the autoFlush calls in progress, innermost last
  visits      \* per query, the autoFlush calls entered on it since the caller's call

vars == <<queries, queues, promises, subs, micro, timers, ret, flushed, injected, stack, visits>>

(***************************************************************************)
(* Values.  A JavaScript value is a tagged record, so that values of       *)
(* different types can be compared (_.isEqual) without being confused.     *)
(***************************************************************************)
Num(n) == [t |-> "num", n |-> n, s |-> "", a |-> <<>>]
Str(s) == [t |-> "str", n |-> 0, s |-> s, a |-> <<>>]
Arr(a) == [t |-> "arr", n |-> 0, s |-> "", a |-> a]
Undef == [t |-> "undefined", n |-> 0, s |-> "", a |-> <<>>]

\* Document ids are non-numeric strings: the enumeration order of an object
\* with such keys is their insertion order.
Keys == {"a", "b", "c"}

KeyRank(k) == CASE k = "a" -> 1 [] k = "b" -> 2 [] k = "c" -> 3 [] OTHER -> 4

Doc(x, tags) == [x |-> x, tags |-> tags]
Entry(k, d) == [key |-> k, doc |-> d]

\* The data of a query: the entries of the object in enumeration order.
DataA == << Entry("a", Doc(1, <<1>>)), Entry("b", Doc(2, <<1, 2>>)), Entry("c", Doc(1, <<>>)) >>
DataB == << Entry("c", Doc(2, <<2>>)), Entry("a", Doc(2, <<1>>)), Entry("b", Doc(1, <<1>>)) >>
DataC == << Entry("b", Doc(2, <<1, 2>>)) >>
DataE == << >>
DataSets == {DataA, DataC, DataE}
BuildSets == {DataA, DataB, DataE}

\* The sentinel FieldPath.documentId().
DocumentId == "__name__"
Props == {"x", "tags", DocumentId}

NoErr == "null"
FailArgs == { <<"get", "E1">>, <<"get", "E2">>, <<"onSnapshot", "E1">> }

\* flushDelay: false, true or a number of milliseconds; flush(delay) may also
\* be called with no argument.
DelayFalse == "false"
DelayTrue == "true"
DelayNum == "10ms"
DelayUndefined == "undefined"
IsNumber(d) == d = DelayNum

SizeOf(data) == Len(data)

IsEqual(a, b) == a = b

\* _.includes(collection, value) for the collections that occur here: an
\* array contains its elements; a number or undefined contains nothing.
Includes(c, v) == c.t = "arr" /\ v.t = "num" /\ \E i \in 1..Len(c.a) : c.a[i] = v.n

getPropertyPath(p) == IF p = DocumentId THEN "key" ELSE "data." \o p

\* _.get(object, path) on documents of the shape {x, tags}.
GetField(doc, p) ==
  CASE p = "x" -> Num(doc.x)
    [] p = "tags" -> Arr(doc.tags)
    [] OTHER -> Undef

\* _.get(queryable, path) with queryable = {data, key}.
GetPath(e, path) ==
  CASE path = "key" -> Str(e.key)
    [] path = "data.x" -> Num(e.doc.x)
    [] path = "data.tags" -> Arr(e.doc.tags)
    [] OTHER -> Undef

(***************************************************************************)
(* Ordering: _.orderBy(queryable, paths, directions).                      *)
(***************************************************************************)
Rank(v) == IF v.t = "str" THEN KeyRank(v.s) ELSE v.n

\* lodash compareAscending on two defined values of one type.
CompareAscending(a, b) ==
  IF Rank(a) > Rank(b) THEN 1 ELSE IF Rank(a) < Rank(b) THEN 0 - 1 ELSE 0

\* lodash compareMultiple: the first criterion that differs decides, negated
\* for 'desc'; entries equal on every criterion keep their original order.
RECURSIVE CompareMultiple(_, _, _, _, _, _)
CompareMultiple(data, i, j, paths, dirs, k) ==
  IF k > Len(paths) THEN i - j
  ELSE LET result == CompareAscending(GetPath(data[i], paths[k]), GetPath(data[j], paths[k]))
       IN IF result # 0
          THEN (IF dirs[k] = "desc" THEN 0 - result ELSE result)
          ELSE CompareMultiple(data, i, j, paths, dirs, k + 1)

\* The place of entry i in the sorted array: one more than the number of
\* entries that compare before it.
SortedPlace(data, i, paths, dirs) ==
  1 + Cardinality({j \in 1..Len(data) : CompareMultiple(data, j, i, paths, dirs, 1) < 0})

OrderBy(data, paths, dirs) ==
  [p \in 1..Len(data) |->
     data[CHOOSE i \in 1..Len(data) : SortedPlace(data, i, paths, dirs) = p]]

PathsOf(props) == [k \in 1..Len(props) |-> getPropertyPath(props[k])]

(***************************************************************************)
(* The cursor.  buildStartFinder is either the constructor's "always true" *)
(* finder or the one startAfter installs, which closes over doc.ref.id.    *)
(***************************************************************************)
NoCursor == [set |-> FALSE, id |-> ""]
CursorAt(id) == [set |-> TRUE, id |-> id]

\* A finder that lets the reference record itself through.
StartFinderInclusive(start, next, key) ==
  IF ~start.set THEN [r |-> TRUE, next |-> next]
  ELSE IF next THEN [r |-> TRUE, next |-> TRUE]
  ELSE [r |-> (key = start.id), next |-> (key = start.id)]

\* One call of the finder returned by buildStartFinder(): its result and the
\* value of its private flag `next` afterwards.
StartFinder(start, next, key) ==
  IF ~start.set THEN [r |-> TRUE, next |-> next]
  ELSE IF next THEN [r |-> TRUE, next |-> TRUE]
  ELSE [r |-> FALSE, next |-> (key = start.id)]

\* The loop, had it counted the records walked instead of the records taken.
RECURSIVE WalkCountingAll(_, _, _, _, _, _, _)
WalkCountingAll(trav, i, start, limited, next, atStart, acc) ==
  IF i > Len(trav) THEN acc
  ELSE LET e == trav[i]
           sf == IF atStart THEN [r |-> TRUE, next |-> next]
                 ELSE StartFinder(start, next, e.key)
           take == sf.r /\ (limited <= 0 \/ i <= limited)
       IN WalkCountingAll(trav, i + 1, start, limited, sf.next, sf.r,
                          IF take THEN Append(acc, e) ELSE acc)

\* The loop of _results over the traversal `trav` from index i on: `next` is
\* the finder's flag, atStart the flag of inRange, acc the results so far
\* (limit counts them).
RECURSIVE Walk(_, _, _, _, _, _, _)
Walk(trav, i, start, limited, next, atStart, acc) ==
  IF i > Len(trav) THEN acc
  ELSE LET e == trav[i]
           sf == IF atStart THEN [r |-> TRUE, next |-> next]
                 ELSE StartFinder(start, next, e.key)
           take == sf.r /\ (limited <= 0 \/ Len(acc) < limited)
       IN Walk(trav, i + 1, start, limited, sf.next, sf.r,
               IF take THEN Append(acc, e) ELSE acc)

\* _results(): the entries of the result object, in insertion order.
Results(q) ==
  IF SizeOf(q.data) = 0 THEN << >>
  ELSE IF Len(q.orderedProperties) = 0
       THEN Walk(q.data, 1, q.start, q.limited, FALSE, FALSE, << >>)
       ELSE Walk(OrderBy(q.data, PathsOf(q.orderedProperties), q.orderedDirections),
                 1, q.start, q.limited, FALSE, FALSE, << >>)

\* _.isEqual on two result objects: the same keys with deep-equal values,
\* whatever the order in which the keys were inserted.
AsMap(res) == {res[i] : i \in 1..Len(res)}
ResultsEqual(r1, r2) == AsMap(r1) = AsMap(r2)

(***************************************************************************)
(* The state as one record, so that an operation can be composed of the    *)
(* calls it makes.                                                         *)
(***************************************************************************)
St == [queries |-> queries, queues |-> queues, promises |-> promises, subs |-> subs,
       micro |-> micro, timers |-> timers, ret |-> ret, flushed |-> flushed,
       injected |-> injected, stack |-> stack, visits |-> visits]

Becomes(s) ==
  /\ queries' = s.queries
  /\ queues' = s.queues
  /\ promises' = s.promises
  /\ subs' = s.subs
  /\ micro' = s.micro
  /\ timers' = s.timers
  /\ ret' = s.ret
  /\ flushed' = s.flushed
  /\ injected' = s.injected
  /\ stack' = s.stack
  /\ visits' = s.visits

NoErrs == [get |-> NoErr, onSnapshot |-> NoErr]

\* The outcome of a call: the query (or subscription, or future) returned, or
\* the message of the error thrown; arg records the kind of argument given.
Returned(op, recv, result) ==
  [op |-> op, recv |-> recv, result |-> result, thrown |-> "none", arg |-> ""]
Threw(op, recv, message) ==
  [op |-> op, recv |-> recv, result |-> 0, thrown |-> message, arg |-> ""]

\* new Queue()
NewQueue == [events |-> << >>, listeners |-> << >>]

\* new MockFirestoreQuery(path, data, parent, name): the object is appended
\* to the heap; without a parent it gets a queue of its own.
Construct(s, data, parent) ==
  LET q == [data |-> data,
            orderedProperties |-> << >>,
            orderedDirections |-> << >>,
            limited |-> 0,
            start |-> NoCursor,
            errs |-> NoErrs,
            flushDelay |-> IF parent # 0 THEN s.queries[parent].flushDelay ELSE DelayFalse,
            parent |-> parent,
            children |-> {},
            queue |-> IF parent # 0 THEN s.queries[parent].queue ELSE Len(s.queues) + 1]
  IN [s EXCEPT !.queries = Append(@, q),
               !.queues = IF parent # 0 THEN @ ELSE Append(@, NewQueue)]

\* clone(): the index of the clone is Len(s.queries) + 1
Clone(s, q) ==
  LET s1 == Construct(s, s.queries[q].data, s.queries[q].parent)
      n == Len(s1.queries)
  IN [s1 EXCEPT !.queries[n].orderedProperties = s.queries[q].orderedProperties,
                !.queries[n].orderedDirections = s.queries[q].orderedDirections,
                !.queries[n].limited = s.queries[q].limited,
                !.queries[n].start = s.queries[q].start]


(***************************************************************************)
(* The builder: where, orderBy, limit, startAfter.  Each returns the state *)
(* after the call; s.ret names the query returned.                         *)
(***************************************************************************)
Supported(operator) == operator \in {"==", "array-contains", "in"}

\* The switch of where() for one entry of this.data.
Matches(e, property, operator, value) ==
  CASE operator = "==" -> IsEqual(GetPath(e, getPropertyPath(property)), value)
    [] operator = "array-contains" -> Includes(GetField(e.doc, property), value)
    [] operator = "in" -> Includes(value, GetField(e.doc, property))
    [] OTHER -> TRUE

\* where, had it tested membership of the value instead of equality.
WhereByMembership(s, q, property, operator, value) ==
  LET s1 == Clone(s, q)
      n == Len(s1.queries)
      Keep(e) == Includes(GetField(e.doc, property), value)
  IN [s1 EXCEPT !.queries[n].data = SelectSeq(s.queries[q].data, Keep),
                !.ret = [Returned("where", q, n) EXCEPT !.arg = <<property, operator, value>>]]

\* ret.arg records the arguments of the call.
Where(s, q, property, operator, value) ==
  LET s1 == Clone(s, q)
      n == Len(s1.queries)
      Keep(e) == Matches(e, property, operator, value)
      s2 == IF ~Supported(operator) THEN s1
            ELSE IF SizeOf(s.queries[q].data) # 0
                 THEN [s1 EXCEPT !.queries[n].data = SelectSeq(s.queries[q].data, Keep)]
                 ELSE [s1 EXCEPT !.queries[n].data = << >>]
  IN [s2 EXCEPT !.ret = [Returned("where", q, n) EXCEPT !.arg = <<property, operator, value>>]]

\* orderBy, had it pushed onto the receiver's arrays as well as the clone's.
OrderByInPlace(s, q, property, direction) ==
  LET s1 == Clone(s, q)
      n == Len(s1.queries)
      dir == IF direction = "" THEN "asc" ELSE direction
  IN [s1 EXCEPT !.queries[n].orderedProperties = Append(@, property),
                !.queries[n].orderedDirections = Append(@, dir),
                !.queries[q].orderedProperties = Append(@, property),
                !.queries[q].orderedDirections = Append(@, dir),
                !.ret = Returned("orderBy", q, n)]

\* direction "" stands for an omitted direction.
OrderByOp(s, q, property, direction) ==
  LET s1 == Clone(s, q)
      n == Len(s1.queries)
  IN [s1 EXCEPT !.queries[n].orderedProperties = Append(@, property),
                !.queries[n].orderedDirections = Append(@, IF direction = "" THEN "asc" ELSE direction),
                !.ret = Returned("orderBy", q, n)]

Limit(s, q, limit) ==
  LET s1 == Clone(s, q)
      n == Len(s1.queries)
  IN [s1 EXCEPT !.queries[n].limited = limit,
                !.ret = Returned("limit", q, n)]

PaginateError == "Query must be ordered to paginate"

ArgKind(doc) == IF doc.snapshot THEN "snapshot" ELSE "other"

\* startAfter without the check that the query is ordered.
StartAfterUnchecked(s, q, doc) ==
  IF ~doc.snapshot
  THEN [s EXCEPT !.ret = [Returned("startAfter", q, q) EXCEPT !.arg = ArgKind(doc)]]
  ELSE LET s1 == Clone(s, q)
           n == Len(s1.queries)
       IN [s1 EXCEPT !.queries[n].start = CursorAt(doc.id),
                     !.ret = [Returned("startAfter", q, n) EXCEPT !.arg = ArgKind(doc)]]

\* doc.snapshot: doc instanceof DocumentSnapshot; doc.id: doc.ref.id
StartAfter(s, q, doc) ==
  IF ~doc.snapshot
  THEN [s EXCEPT !.ret = [Returned("startAfter", q, q) EXCEPT !.arg = ArgKind(doc)]]
  ELSE IF Len(s.queries[q].orderedProperties) = 0
       THEN [s EXCEPT !.ret = [Threw("startAfter", q, PaginateError) EXCEPT !.arg = ArgKind(doc)]]
       ELSE LET s1 == Clone(s, q)
                n == Len(s1.queries)
            IN [s1 EXCEPT !.queries[n].start = CursorAt(doc.id),
                          !.ret = [Returned("startAfter", q, n) EXCEPT !.arg = ArgKind(doc)]]

(***************************************************************************)
(* Arguments the operations are called with.                               *)
(***************************************************************************)
WhereArgs ==
  { <<"x", "==", Num(1)>>, <<DocumentId, "==", Str("b")>>,
    <<"tags", "array-contains", Num(2)>>, <<"x", "in", Arr(<<2, 3>>)>>,
    <<"x", "<", Num(2)>> }
OrderArgs == { <<"x", "">>, <<"x", "desc">>, <<DocumentId, "desc">> }
LimitArgs == {0 - 1, 0, 1, 2}
CursorArgs ==
  { [snapshot |-> TRUE, id |-> "a"], [snapshot |-> TRUE, id |-> "b"],
    [snapshot |-> TRUE, id |-> "z"], [snapshot |-> FALSE, id |-> "a"] }

(***************************************************************************)
(* Initial state: one query constructed over a data set, no parent.        *)
(***************************************************************************)
Blank == [queries |-> << >>, queues |-> << >>, promises |-> << >>, subs |-> << >>,
          micro |-> << >>, timers |-> << >>,
          ret |-> Returned("new", 0, 1), flushed |-> {}, injected |-> 0,
          stack |-> << >>, visits |-> << >>]

InitOver(sets) ==
  \E data \in sets :
    /\ queries = Construct(Blank, data, 0).queries
    /\ queues = Construct(Blank, data, 0).queues
    /\ promises = << >>
    /\ subs = << >>
    /\ micro = << >>
    /\ timers = << >>
    /\ ret = Returned("new", 0, 1)
    /\ flushed = {}
    /\ injected = 0
    /\ stack = << >>
    /\ visits = << >>

Init == InitOver(DataSets)
InitBuild == InitOver(BuildSets)

Qs == 1..Len(queries)
CanBuild == Len(queries) < MaxBuilt

\* Every operation starts with nothing flushed and nothing thrown yet.
Now == [St EXCEPT !.flushed = {}, !.ret = Returned("", 0, 0)]

(***************************************************************************)
(* Builder actions.                                                        *)
(***************************************************************************)
DoWhere ==
  \E q \in Qs, a \in WhereArgs :
    CanBuild /\ Becomes(Where(Now, q, a[1], a[2], a[3]))

DoOrderBy ==
  \E q \in Qs, a \in OrderArgs :
    CanBuild /\ Becomes(OrderByOp(Now, q, a[1], a[2]))

DoLimit ==
  \E q \in Qs, n \in LimitArgs :
    CanBuild /\ Becomes(Limit(Now, q, n))

DoStartAfter ==
  \E q \in Qs, doc \in CursorArgs :
    CanBuild /\ Becomes(StartAfter(Now, q, doc))

DoClone ==
  \E q \in Qs :
    CanBuild /\ Becomes([Clone(Now, q) EXCEPT !.ret = Returned("clone", q, Len(queries) + 1)])

NextBuild == DoWhere \/ DoOrderBy \/ DoLimit \/ DoStartAfter \/ DoClone

SpecBuild == InitBuild /\ [][NextBuild]_vars

(***************************************************************************)
(* Claims about the builder and the evaluation, checked under SpecBuild.   *)
(***************************************************************************)

\* C1: a builder call (where, orderBy, limit, startAfter, clone) leaves every
\* existing query, the receiver included, exactly as it was: same data, sort
\* keys and directions, limit and cursor, hence the same evaluation.
C1_ReceiverNotMutated ==
  [][\A i \in 1..Len(queries) :
        /\ i <= Len(queries')
        /\ queries'[i] = queries[i]]_vars

C1_Witness ==
  /\ ret.op = "orderBy"
  /\ ret.result # ret.recv
  /\ Len(queries[ret.result].orderedProperties) = 2
  /\ Len(queries[ret.recv].orderedProperties) = 1
  /\ Results(queries[ret.result]) # Results(queries[ret.recv])

\* C8 as stated: startAfter on a query without sort key throws the pagination
\* error and returns no query, whatever the argument.
C8_AlwaysThrows ==
  (ret.op = "startAfter" /\ Len(queries[ret.recv].orderedProperties) = 0)
    => (ret.thrown = PaginateError /\ ret.result = 0)

\* C8 amended: startAfter with a document snapshot on a query without sort key
\* throws the pagination error, returns no query and allocates none; with any
\* other argument it returns the receiver and does not throw.
C8_ThrowsForSnapshot ==
  [][(ret'.op = "startAfter" /\ Len(queries[ret'.recv].orderedProperties) = 0)
       => /\ queries' = queries
          /\ ret'.arg = "snapshot" => (ret'.thrown = PaginateError /\ ret'.result = 0)
          /\ ret'.arg # "snapshot" => (ret'.thrown = "none" /\ ret'.result = ret'.recv)]_vars

C8_Witness ==
  /\ ret.op = "startAfter"
  /\ ret.arg = "snapshot"
  /\ ret.thrown = PaginateError
  /\ SizeOf(queries[ret.recv].data) # 0

Min(a, b) == IF a < b THEN a ELSE b

\* The records strictly after the record with key k in trav, at most
\* `limited` of them when limited > 0; none when no record has key k.
AfterKey(trav, k, limited) ==
  IF \A i \in 1..Len(trav) : trav[i].key # k THEN << >>
  ELSE LET pos == CHOOSE i \in 1..Len(trav) : trav[i].key = k
           last == IF limited > 0 THEN Min(Len(trav), pos + limited) ELSE Len(trav)
       IN SubSeq(trav, pos + 1, last)

\* The query built last.  Every query of the heap was the last one in the
\* state its builder call produced, and no builder call changes it afterwards.
Newest == queries[Len(queries)]

\* C9: a query with a sort key and a cursor at key k evaluates to the records
\* strictly after k in the sorted traversal, truncated by the limit, and to
\* nothing when no record has key k.
C9_CursorExclusiveAfter ==
  LET q == Newest IN
    (q.start.set /\ Len(q.orderedProperties) >= 1)
      => Results(q) = AfterKey(OrderBy(q.data, PathsOf(q.orderedProperties), q.orderedDirections),
                               q.start.id, q.limited)

C9_Witness ==
  \E i \in 1..Len(queries) :
    LET q == queries[i] IN
      /\ q.start.set
      /\ q.limited = 1
      /\ Len(q.data) = 3
      /\ Len(Results(q)) = 1
      /\ OrderBy(q.data, PathsOf(q.orderedProperties), q.orderedDirections)[1].key = q.start.id

Unlimited(q) == [q EXCEPT !.limited = 0]

\* C10: with limit n > 0 a query evaluates to the first min(n, |S|) entries of
\* S, the evaluation of the same query without limit; with n <= 0 to S;
\* wherever in the chain limit was called.
C10_LimitIsPrefix ==
  LET q == Newest
      S == Results(Unlimited(q))
  IN Results(q) = IF q.limited > 0 THEN SubSeq(S, 1, Min(q.limited, Len(S))) ELSE S

C10_Witness ==
  \E i \in 1..Len(queries) :
    /\ queries[i].limited = 1
    /\ queries[i].start.set
    /\ Len(Results(queries[i])) = 1
    /\ Len(Results(Unlimited(queries[i]))) = 2

\* The value of a record at a field path: its key for the document-id
\* sentinel, else the field of its document (undefined if there is none).
ValueAt(e, property) ==
  IF property = DocumentId THEN Str(e.key) ELSE GetField(e.doc, property)

\* C11: where(path, '==', v) returns a new query whose data is the
\* subsequence of the receiver's data made of the records whose value at the
\* path equals v (the key for the document-id sentinel), in the receiver's
\* order, empty when none matches; without cursor and limit the new query
\* evaluates to the matching records of the receiver's evaluation, in its
\* order.
C11_WhereEqualityExactSubset ==
  [][(ret'.op = "where" /\ ret'.arg[2] = "==") =>
       LET q == queries[ret'.recv]
           n == queries'[ret'.result]
           Hit(e) == ValueAt(e, ret'.arg[1]) = ret'.arg[3]
       IN /\ ret'.result = Len(queries) + 1
          /\ n.data = SelectSeq(q.data, Hit)
          /\ (~q.start.set /\ q.limited <= 0)
               => Results(n) = SelectSeq(Results(q), Hit)]_vars

\* where on x over a sorted query of three records: two match.
C11_Witness ==
  /\ ret.op = "where"
  /\ ret.arg[2] = "=="
  /\ ret.arg[1] = "x"
  /\ Len(queries[ret.recv].data) = 3
  /\ Len(queries[ret.recv].orderedProperties) = 1
  /\ Len(queries[ret.result].data) = 2
  /\ queries[ret.result].data[1].key = "a"
  /\ queries[ret.result].data[2].key = "c"
  /\ Results(queries[ret.result]) # queries[ret.result].data

\* where with no matching record: the new query has no data.
C11_WitnessNoMatch ==
  /\ ret.op = "where"
  /\ ret.arg[2] = "=="
  /\ Len(queries[ret.recv].data) >= 1
  /\ queries[ret.result].data = << >>

(***************************************************************************)
(* Deferred delivery.  A work unit pushed by _defer is the callback of one *)
(* get() call; it is identified with the future that call returned.        *)
(***************************************************************************)
StackOverflow == "Maximum call stack size exceeded"

\* The future of a get() call on query q that found the pending error err;
\* sub is the subscription whose post-flush handler attached a then-callback
\* (0: the caller holds the future).
NewPromise(q, err, sub) ==
  [q |-> q, err |-> err, sub |-> sub, state |-> "pending", value |-> << >>,
   wrapper |-> "", reason |-> NoErr]

\* _nextErr(type): the pending error, removed from errs.
NextErr(s, q, type) == s.queries[q].errs[type]
\* _nextErr, had it left the error in place.
ClearErrNever(s, q, type) == s

ClearErr(s, q, type) == [s EXCEPT !.queries[q].errs[type] = NoErr]

\* The callback get() defers, run by the queue: resolve with a QuerySnapshot
\* over the results (or the empty QuerySnapshot), or reject with the error
\* get() found; settling a settled future changes nothing.  A resolved future
\* schedules the then-callback attached to it.
RunEvent(s, p) ==
  LET pr == s.promises[p]
      q == s.queries[pr.q]
      results == Results(q)
  IN IF pr.state # "pending" THEN s
     ELSE IF pr.err = NoErr
     THEN [s EXCEPT !.promises[p].state = "resolved",
                    !.promises[p].value = IF SizeOf(q.data) # 0 THEN results ELSE << >>,
                    !.promises[p].wrapper = IF SizeOf(q.data) # 0 THEN "results" ELSE "empty",
                    !.micro = IF pr.sub # 0 THEN Append(@, p) ELSE @]
     ELSE [s EXCEPT !.promises[p].state = "rejected",
                    !.promises[p].reason = pr.err]

\* queue.push(event)
Push(s, k, p) == [s EXCEPT !.queues[k].events = Append(@, p)]

RECURSIVE RunEvents(_, _)
RECURSIVE RunListeners(_, _, _, _)
RECURSIVE Process(_, _, _)
RECURSIVE FlushQueue(_, _, _, _)
RECURSIVE Defer(_, _, _, _)
RECURSIVE GetCall(_, _, _, _)
RECURSIVE Handler(_, _, _)

\* The queue drains: every queued work unit runs, in the order pushed.
RunEvents(s, k) ==
  IF s.queues[k].events = << >> THEN s
  ELSE RunEvents(RunEvent([s EXCEPT !.queues[k].events = Tail(@)], Head(s.queues[k].events)), k)

\* The post-flush listeners run in the order registered.
RunListeners(s, ls, j, depth) ==
  IF j > Len(ls) THEN s
  ELSE RunListeners(Handler(s, ls[j], depth), ls, j + 1, depth)

\* One flush of queue k: drain, then the post-flush listeners.
Process(s, k, depth) ==
  LET s1 == RunEvents(s, k)
      s2 == [s1 EXCEPT !.flushed = @ \cup {k}]
  IN RunListeners(s2, s2.queues[k].listeners, 1, depth + 1)

\* queue.flush(delay): after a timer for a numeric delay, else at once.
FlushQueue(s, k, delay, depth) ==
  IF IsNumber(delay) THEN [s EXCEPT !.timers = Append(@, k)]
  ELSE Process(s, k, depth)

\* _defer, had it run the callback inline instead of queueing it.
DeferInline(s, q, p, depth) == RunEvent(s, p)

\* _defer, had it only pushed, whatever the auto-flush setting.
DeferNoFlush(s, q, p, depth) == Push(s, s.queries[q].queue, p)

\* _defer(sourceMethod, sourceArgs, callback), called in the executor of the
\* future p.  An immediate flush nested deeper than MaxNest stands for the
\* recursion that exhausts the stack: the executor's caller catches the
\* RangeError and rejects p with it, its work unit still queued.
Defer(s, q, p, depth) ==
  LET s1 == Push(s, s.queries[q].queue, p)
      delay == s.queries[q].flushDelay
  IN IF delay # DelayFalse
     THEN IF ~IsNumber(delay) /\ depth > MaxNest
          THEN [s1 EXCEPT !.promises[p].state = "rejected",
                          !.promises[p].reason = StackOverflow]
          ELSE FlushQueue(s1, s.queries[q].queue, delay, depth)
     ELSE s1

\* get(): the future is the last of s.promises afterwards
GetCall(s, q, sub, depth) ==
  LET err == NextErr(s, q, "get")
      s1 == ClearErr(s, q, "get")
      s2 == [s1 EXCEPT !.promises = Append(@, NewPromise(q, err, sub))]
  IN Defer(s2, q, Len(s2.promises), depth)

\* The function onSnapshot registers with queue.onPostFlush, called with
\* no argument (initialCall is undefined) for subscription i.
Handler(s, i, depth) ==
  IF s.subs[i].err = NoErr
  THEN GetCall(s, s.subs[i].q, i, depth)
  ELSE [s EXCEPT !.subs[i].errCalls = @ + 1]

\* The then-callback, had it delivered whether or not the results changed.
ThenCallbackAlways(s, p) ==
  LET i == s.promises[p].sub
      results == Results(s.queries[s.subs[i].q])
  IN [s EXCEPT !.subs[i].nextCalls = @ + 1,
               !.subs[i].last = results,
               !.subs[i].ctx = results]

\* The then-callback of the handler's self.get(), for resolved future p.
ThenCallback(s, p) ==
  LET i == s.promises[p].sub
      results == Results(s.queries[s.subs[i].q])
  IN IF ~ResultsEqual(results, s.subs[i].ctx) \/ s.subs[i].imc
     THEN [s EXCEPT !.subs[i].nextCalls = @ + 1,
                    !.subs[i].last = results,
                    !.subs[i].ctx = results]
     ELSE s

RECURSIVE RunMicro(_)
RunMicro(s) ==
  IF s.micro = << >> THEN s
  ELSE RunMicro(ThenCallback([s EXCEPT !.micro = Tail(@)], Head(s.micro)))

\* onSnapshot, had it only registered the handler without the initial call.
OnSnapshotNoInitialCall(s, q, imc) ==
  LET err == NextErr(s, q, "onSnapshot")
      s1 == ClearErr(s, q, "onSnapshot")
      i == Len(s.subs) + 1
      sub == [q |-> q, err |-> err, imc |-> imc, ctx |-> Results(s.queries[q]),
              active |-> TRUE, nextCalls |-> 0, errCalls |-> 0, last |-> << >>]
  IN [s1 EXCEPT !.subs = Append(@, sub),
                !.queues[s.queries[q].queue].listeners = Append(@, i),
                !.ret = s.ret]

\* onSnapshot(...): imc is includeMetadataChanges.  nextCalls / errCalls count
\* the invocations of onNext / onError, last is the result set onNext got.
OnSnapshot(s, q, imc) ==
  LET err == NextErr(s, q, "onSnapshot")
      s1 == ClearErr(s, q, "onSnapshot")
      i == Len(s.subs) + 1
      results == Results(s.queries[q])
      sub == [q |-> q, err |-> err, imc |-> imc, ctx |-> Results(s.queries[q]),
              active |-> TRUE,
              nextCalls |-> IF err = NoErr THEN 1 ELSE 0,
              errCalls |-> IF err = NoErr THEN 0 ELSE 1,
              last |-> IF err = NoErr /\ SizeOf(s.queries[q].data) # 0 THEN results ELSE << >>]
  IN [s1 EXCEPT !.subs = Append(@, sub),
                !.queues[s.queries[q].queue].listeners = Append(@, i),
                !.ret = s.ret]

\* The unsubscribe function queue.onPostFlush returned for subscription i.
Unsubscribe(s, i) ==
  LET k == s.queries[s.subs[i].q].queue
      Other(j) == j # i
  IN [s EXCEPT !.queues[k].listeners = SelectSeq(@, Other),
               !.subs[i].active = FALSE,
               !.ret = s.ret]

\* _setData(data)
SetData(s, q, data) ==
  [s EXCEPT !.queries[q].data = data]

\* errs[type] = err, by the collaborator that injects errors
FailNext(s, q, type, err) ==
  [s EXCEPT !.queries[q].errs[type] = err,
            !.injected = IF type = "get" THEN @ + 1 ELSE @]

\* autoFlush(delay): a changed flag is passed on to the children, then to
\* the parent.
RECURSIVE AutoFlush(_, _, _)
RECURSIVE AutoFlushChildren(_, _, _)
AutoFlushChildren(s, cs, delay) ==
  IF cs = {} THEN s
  ELSE LET c == CHOOSE x \in cs : \A y \in cs : x <= y
       IN AutoFlushChildren(AutoFlush(s, c, delay), cs \ {c}, delay)

AutoFlush(s, q, delay) ==
  IF s.queries[q].flushDelay # delay
  THEN LET s1 == [s EXCEPT !.queries[q].flushDelay = delay]
           s2 == AutoFlushChildren(s1, s1.queries[q].children, delay)
       IN IF s2.queries[q].parent # 0
          THEN AutoFlush(s2, s2.queries[q].parent, delay)
          ELSE s2
  ELSE s

(***************************************************************************)
(* The actions of the caller and of the event loop.                        *)
(***************************************************************************)
Within(s) ==
  /\ Len(s.promises) <= MaxPromises
  /\ Len(s.subs) <= MaxSubs
  /\ Len(s.timers) <= MaxTimers
  /\ s.injected <= MaxInject
  /\ \A i \in 1..Len(s.subs) : s.subs[i].errCalls <= MaxCalls

\* The operations below return a future, an unsubscribe function or the
\* receiver itself; ret keeps only what they threw.
DoGet ==
  \E q \in Qs :
    LET s == GetCall(Now, q, 0, 0)
    IN Within(s) /\ Becomes(s)

DoFlush ==
  \E q \in Qs, delay \in {DelayUndefined, DelayNum} :
    LET s == FlushQueue(Now, queries[q].queue, delay, 0)
    IN Within(s) /\ Becomes(s)

DoOnSnapshot ==
  \E q \in Qs, imc \in BOOLEAN :
    LET s == OnSnapshot(Now, q, imc)
    IN Within(s) /\ Becomes(s)

DoUnsubscribe ==
  \E i \in 1..Len(subs) :
    subs[i].active /\ Becomes(Unsubscribe(Now, i))

DoSetData ==
  \E q \in Qs, data \in DataSets :
    Becomes(SetData(Now, q, data))

DoFailNext ==
  \E q \in Qs, a \in FailArgs :
    LET s == FailNext(Now, q, a[1], a[2])
    IN Within(s) /\ Becomes(s)

DoAutoFlush ==
  \E q \in Qs, delay \in {DelayFalse, DelayTrue, DelayNum} :
    Becomes(AutoFlush(Now, q, delay))

\* The caller yields: the scheduled then-callbacks run.
DrainMicro ==
  /\ micro # << >>
  /\ Becomes(RunMicro(Now))

\* A timer set by flush(delay) fires: the queue is processed.
TimerFire ==
  /\ timers # << >>
  /\ micro = << >>
  /\ LET s == Process([Now EXCEPT !.timers = Tail(@)], Head(timers), 0)
     IN Within(s) /\ Becomes(s)

Next ==
  \/ DoGet
  \/ DoFlush
  \/ DoOnSnapshot
  \/ DoUnsubscribe
  \/ DoSetData
  \/ DoFailNext
  \/ DoAutoFlush
  \/ DrainMicro
  \/ TimerFire

Spec == Init /\ [][Next]_vars

(***************************************************************************)
(* Claims about deferred delivery and subscriptions, checked under Spec.   *)
(***************************************************************************)
Settled(pr) == pr.state # "pending"

\* The work unit of future p is still queued in qs.
Queued(qs, k, p) == \E j \in 1..Len(qs[k].events) : qs[k].events[j] = p

\* C2: the future of a get() call is settled only in a step that flushes the
\* queue of its query after the work unit was pushed; as long as it is pending
\* its work unit is still queued and no result has been computed for it.
C2_SettledOnlyByFlush ==
  [][\A p \in 1..Len(promises') :
       LET pr == promises'[p] IN
         /\ (Settled(pr) /\ (p > Len(promises) \/ ~Settled(promises[p])))
              => queries'[pr.q].queue \in flushed'
         /\ ~Settled(pr)
              => /\ Queued(queues', queries'[pr.q].queue, p)
                 /\ pr.wrapper = ""
                 /\ pr.value = << >>]_vars

C2_Witness ==
  /\ Len(promises) = 2
  /\ promises[1].state = "resolved"
  /\ promises[2].state = "pending"
  /\ timers # << >>
  /\ flushed = {}

\* The futures of the get() calls a step made on query q, in call order.
NewGets(q) == {p \in (Len(promises) + 1)..Len(promises') : promises'[p].q = q}

\* C3: a 'get' error is one-shot.  The first get() call on the query after
\* the injection captures the error and removes it, every other call captures
\* none; a future whose work unit ran is rejected with the error it captured,
\* or resolved if it captured none; no more futures capture an error than
\* errors were injected.
C3_GetErrorOneShot ==
  [][/\ \A q \in 1..Len(queries) :
          NewGets(q) # {} =>
            LET first == CHOOSE p \in NewGets(q) : \A r \in NewGets(q) : p <= r IN
              /\ promises'[first].err = queries[q].errs.get
              /\ \A r \in NewGets(q) \ {first} : promises'[r].err = NoErr
              /\ queries'[q].errs.get = NoErr
     /\ \A p \in 1..Len(promises') :
          LET pr == promises'[p] IN
            /\ pr.state = "resolved" => pr.err = NoErr
            /\ (pr.state = "rejected" /\ pr.reason # StackOverflow)
                 => (pr.err # NoErr /\ pr.reason = pr.err)
            /\ (pr.state = "pending" \/ pr.reason = StackOverflow)
                 \/ ~Queued(queues', queries'[pr.q].queue, p)
     /\ Cardinality({p \in 1..Len(promises') : promises'[p].err # NoErr})
          + Cardinality({q \in 1..Len(queries') : queries'[q].errs.get # NoErr})
          <= injected']_vars

C3_Witness ==
  /\ Len(promises) = 2
  /\ promises[1].state = "rejected"
  /\ promises[1].reason = "E2"
  /\ promises[2].state = "resolved"
  /\ promises[1].sub = 0
  /\ promises[2].sub = 0
  /\ injected = 1

C5_NoDuplicateNotification ==
  [][\A i \in 1..Len(subs) :
       (~subs[i].imc /\ subs'[i].nextCalls # subs[i].nextCalls)
         => /\ subs'[i].nextCalls = subs[i].nextCalls + 1
            /\ subs[i].nextCalls >= 1
            /\ ~ResultsEqual(subs'[i].last, subs[i].last)
            /\ \E j \in 1..Len(micro) :
                 /\ promises[micro[j]].sub = i
                 /\ promises[micro[j]].state = "resolved"]_vars

C5_Witness ==
  /\ Len(subs) = 1
  /\ ~subs[1].imc
  /\ subs[1].nextCalls = 2
  /\ subs[1].last = DataC
  /\ Len(promises) = 2
  /\ promises[2].state = "resolved"

\* C6: once a subscription has been unsubscribed, neither its next-callback
\* nor its error-callback is invoked again.
C6_SilentAfterUnsubscribe ==
  [][\A i \in 1..Len(subs) :
       ~subs[i].active
         => /\ subs'[i].nextCalls = subs[i].nextCalls
            /\ subs'[i].errCalls = subs[i].errCalls]_vars

\* C7: an error injected for 'onSnapshot' reaches the subscriber's
\* error-callback exactly once.
C7_ErrorDeliveredOnce ==
  \A i \in 1..Len(subs) : subs[i].errCalls <= 1

\* The future of the get() call the caller made in this step, if any: the
\* first future the step created, held by the caller.
CallerGet ==
  /\ Len(promises') > Len(promises)
  /\ promises'[Len(promises) + 1].sub = 0

\* C14: a get() call by the caller on a query whose setting is true flushes
\* the query's queue in the call, so the future is settled and its work unit
\* gone when get() returns; with a numeric setting it starts the timer of a
\* flush of that queue, and when a timer fires its queue is flushed; with
\* setting false it flushes nothing and starts no timer, and the work unit
\* stays queued.
C14_AutoFlushFlushesOnGet ==
  [][/\ CallerGet =>
          LET p == Len(promises) + 1
              pr == promises'[p]
              k == queries[pr.q].queue
              d == queries[pr.q].flushDelay
          IN /\ d = DelayFalse
                  => /\ flushed' = {}
                     /\ timers' = timers
                     /\ ~Settled(pr)
                     /\ Queued(queues', k, p)
             /\ d = DelayTrue
                  => /\ k \in flushed'
                     /\ timers' = timers
                     /\ Settled(pr)
                     /\ ~Queued(queues', k, p)
             /\ IsNumber(d)
                  => /\ timers' = Append(timers, k)
                     /\ flushed' = {}
                     /\ Queued(queues', k, p)
     /\ (timers # << >> /\ timers' = Tail(timers)) => Head(timers) \in flushed']_vars

\* Two futures settled with different results on a query with setting true,
\* the second by the flush just made.
C14_Witness ==
  /\ Len(promises) = 2
  /\ promises[1].sub = 0
  /\ promises[2].sub = 0
  /\ promises[1].state = "resolved"
  /\ promises[2].state = "resolved"
  /\ promises[1].value = DataC
  /\ promises[2].value = DataA
  /\ queries[1].flushDelay = DelayTrue
  /\ flushed = {1}
  /\ queues[1].events = << >>
  /\ timers = << >>
  /\ subs = << >>

\* C15: when a step flushes the queue of an active subscription without
\* pending error whose query now evaluates to something else than the result
\* set last delivered, the flush delivers: the next-callback is invoked in
\* the step, or its invocation is scheduled by the step (a then-callback of
\* the subscription waits to run).
C15_DeliveredBySameFlush ==
  [][\A i \in 1..Len(subs) :
       (/\ subs[i].active
        /\ subs[i].err = NoErr
        /\ queries[subs[i].q].queue \in flushed'
        /\ ~ResultsEqual(Results(queries'[subs[i].q]), subs[i].ctx))
         => \/ /\ subs'[i].nextCalls = subs[i].nextCalls + 1
               /\ subs'[i].ctx = Results(queries'[subs[i].q])
            \/ \E j \in 1..Len(micro') : promises'[micro'[j]].sub = i]_vars

\* C16: a pending 'get' error is removed only by a get() call of the caller
\* on that query, which captures it (or replaced by a new injection).
C16_GetErrorKeptForCaller ==
  [][\A q \in 1..Len(queries) :
       (queries[q].errs.get # NoErr /\ queries'[q].errs.get # queries[q].errs.get)
         => \/ injected' # injected
            \/ /\ CallerGet
               /\ promises'[Len(promises) + 1].q = q
               /\ promises'[Len(promises) + 1].err = queries[q].errs.get]_vars

\* C19: a step that flushes the queue of an active subscription, with no
\* error pending and the query's evaluation unchanged since the last
\* delivery, leaves in that queue no work unit but those of the caller's
\* get() calls.
C19_FlushAddsNoWork ==
  [][\A i \in 1..Len(subs) :
       LET k == queries[subs[i].q].queue IN
         (/\ subs[i].active
          /\ subs[i].err = NoErr
          /\ queries[subs[i].q].errs.get = NoErr
          /\ k \in flushed'
          /\ ResultsEqual(Results(queries'[subs[i].q]), subs[i].ctx))
           => \A j \in 1..Len(queues'[k].events) :
                promises'[queues'[k].events[j]].sub = 0]_vars

(***************************************************************************)
(* Queries linked by parent and children, their derived queries and the    *)
(* queues they use.  A query constructed with a parent is entered in the   *)
(* parent's children by the collaborator that constructed it; a query that *)
(* clone() constructs has the receiver's parent and is nobody's child.     *)
(***************************************************************************)
MaxQueries == 3      \* query objects in a graph of linked and derived queries

GraphSets == {DataA, DataC}

\* The builder calls made on the queries of a graph: where('x', '==', 1),
\* orderBy('x'), limit(1), startAfter(snapshot of a / of b), clone().
DeriveArgs ==
  { [op |-> "where", id |-> ""], [op |-> "orderBy", id |-> ""], [op |-> "limit", id |-> ""],
    [op |-> "startAfter", id |-> "a"], [op |-> "startAfter", id |-> "b"],
    [op |-> "clone", id |-> ""] }

Derive(s, q, d) ==
  CASE d.op = "where" -> Where(s, q, "x", "==", Num(1))
    [] d.op = "orderBy" -> OrderByOp(s, q, "x", "")
    [] d.op = "limit" -> Limit(s, q, 1)
    [] d.op = "startAfter" -> StartAfter(s, q, [snapshot |-> TRUE, id |-> d.id])
    [] OTHER -> [Clone(s, q) EXCEPT !.ret = Returned("clone", q, Len(s.queries) + 1)]

InitGraph == InitOver(GraphSets)

\* No builder call is made while an autoFlush call is in progress.
DoDerive ==
  \E q \in Qs, d \in DeriveArgs :
    /\ Len(queries) < MaxQueries
    /\ stack = << >>
    /\ Becomes(Derive(Now, q, d))

\* parent.children[name] = new MockFirestoreQuery(path, data, parent, name),
\* by the collaborator that hands out the children of a query.
NewChild(s, p, data) ==
  LET s1 == Construct(s, data, p)
      n == Len(s1.queries)
  IN [s1 EXCEPT !.queries[p].children = @ \cup {n},
                !.ret = Returned("new", 0, n)]

DoNewChild ==
  \E p \in Qs :
    /\ Len(queries) < MaxQueries
    /\ stack = << >>
    /\ Becomes(NewChild(Now, p, DataC))

NextGraph ==
  \/ DoDerive
  \/ DoNewChild
  \/ DoGet
  \/ DoFlush
  \/ TimerFire

SpecGraph == InitGraph /\ [][NextGraph]_vars

(***************************************************************************)
(* Claims about linked and derived queries, checked under SpecGraph.       *)
(***************************************************************************)
BuilderOps == {"where", "orderBy", "limit", "startAfter", "clone"}

\* The step was a builder call that returned a query.
Derived == ret'.op \in BuilderOps /\ ret'.thrown = "none"

\* C12: the query a builder call returns uses the queue of the receiver,
\* whether or not the receiver has a parent; hence a future of get() on any
\* query is settled in a step that flushes the queue of any other query of
\* the graph.
C12_DerivedSharesQueue ==
  [][/\ Derived => queries'[ret'.result].queue = queries'[ret'.recv].queue
     /\ \A p \in 1..Len(promises') :
          (Settled(promises'[p]) /\ (p > Len(promises) \/ ~Settled(promises[p])))
            => \A q \in 1..Len(queries') : queries'[q].queue \in flushed']_vars

\* The part of C12 that holds: a query derived from a query with a parent
\* uses the queue of the receiver, which is the parent's.
C12_SharedUnderParent ==
  [][(Derived /\ queries[ret'.recv].parent # 0)
       => /\ queries'[ret'.result].queue = queries'[ret'.recv].queue
          /\ queries'[ret'.result].queue = queries'[queries[ret'.recv].parent].queue]_vars

(***************************************************************************)
(* autoFlush, call by call.  A frame of the stack is one call of autoFlush *)
(* on query q: pc is its position, todo the children the forEach has still *)
(* to visit.                                                               *)
(***************************************************************************)
\* The deepest recursion the model lets autoFlush reach.
MaxDepth == MaxQueries + 2

Frame(q, delay) == [q |-> q, delay |-> delay, pc |-> "test", todo |-> {}]

\* if (_.isUndefined(delay)) { delay = true; }
DelayOf(delay) == IF delay = DelayUndefined THEN DelayTrue ELSE delay

Top(s) == s.stack[Len(s.stack)]
Pop(s) == [s EXCEPT !.stack = SubSeq(@, 1, Len(@) - 1)]
SetTop(s, f) == [s EXCEPT !.stack[Len(s.stack)] = f]
Call(s, q, delay) == [s EXCEPT !.stack = Append(@, Frame(q, delay))]

\* return this: the caller's call returns the receiver.
Return(s) ==
  IF Len(s.stack) = 1
  THEN [Pop(s) EXCEPT !.ret.result = s.ret.recv]
  ELSE Pop(s)

\* The body of autoFlush, had it passed the setting on before storing it.
EnterUnmarked(s) ==
  LET f == Top(s)
      d == DelayOf(f.delay)
      s1 == [s EXCEPT !.visits[f.q] = @ + 1]
  IN IF s.queries[f.q].flushDelay # d
     THEN SetTop(s1, [f EXCEPT !.delay = d, !.pc = "children",
                               !.todo = s.queries[f.q].children])
     ELSE Return(s1)

\* The call is entered: the default for delay, the test of the flag, the
\* assignment.
Enter(s) ==
  LET f == Top(s)
      d == DelayOf(f.delay)
      s1 == [s EXCEPT !.visits[f.q] = @ + 1]
  IN IF s.queries[f.q].flushDelay # d
     THEN SetTop([s1 EXCEPT !.queries[f.q].flushDelay = d],
                 [f EXCEPT !.delay = d, !.pc = "children",
                           !.todo = s.queries[f.q].children])
     ELSE Return(s1)

\* _.forEach(this.children, ...): the next child is called, in key order.
ForEachChild(s) ==
  LET f == Top(s)
  IN IF f.todo = {} THEN SetTop(s, [f EXCEPT !.pc = "parent"])
     ELSE LET c == CHOOSE x \in f.todo : \A y \in f.todo : x <= y
          IN Call(SetTop(s, [f EXCEPT !.todo = @ \ {c}]), c, f.delay)

\* if (this.parent) { this.parent.autoFlush(delay); }
CallParent(s) ==
  LET f == Top(s)
  IN IF s.queries[f.q].parent # 0
     THEN Call(SetTop(s, [f EXCEPT !.pc = "return"]), s.queries[f.q].parent, f.delay)
     ELSE Return(s)

AutoFlushStep(s) ==
  CASE Top(s).pc = "test" -> Enter(s)
    [] Top(s).pc = "children" -> ForEachChild(s)
    [] Top(s).pc = "parent" -> CallParent(s)
    [] OTHER -> Return(s)

AutoFlushArgs == {DelayFalse, DelayTrue, DelayNum, DelayUndefined}

\* The caller calls autoFlush(delay), or autoFlush() for DelayUndefined.
DoCallAutoFlush ==
  \E q \in Qs, delay \in AutoFlushArgs :
    /\ stack = << >>
    /\ Becomes([Call(Now, q, delay) EXCEPT
                  !.visits = [i \in Qs |-> 0],
                  !.ret = [Returned("autoFlush", q, 0) EXCEPT !.arg = delay]])

StepAutoFlush ==
  /\ stack # << >>
  /\ Len(AutoFlushStep(St).stack) <= MaxDepth
  /\ Becomes(AutoFlushStep(St))

\* clone(), the call by which every builder operation constructs its query.
DoCloneInGraph ==
  \E q \in Qs :
    /\ Len(queries) < MaxQueries
    /\ stack = << >>
    /\ Becomes(Derive(Now, q, [op |-> "clone", id |-> ""]))

NextAuto ==
  \/ DoCloneInGraph
  \/ DoNewChild
  \/ DoCallAutoFlush
  \/ StepAutoFlush

\* A call in progress goes on: nothing else runs meanwhile.
InitAuto == InitOver({DataC})

SpecAuto == InitAuto /\ [][NextAuto]_vars /\ WF_vars(StepAutoFlush)

(***************************************************************************)
(* Claims about the auto-flush setting, checked under SpecAuto.            *)
(***************************************************************************)
\* The queries linked to the queries of set S by a parent or children
\* reference, in either direction: parents, children, and the queries that
\* clone() gave the same parent.
Linked(qs, S) ==
  S \cup {i \in 1..Len(qs) :
            \E j \in S : \/ qs[i].parent = j
                         \/ qs[j].parent = i
                         \/ i \in qs[j].children
                         \/ j \in qs[i].children}

RECURSIVE Connected(_, _)
Connected(qs, S) == IF Linked(qs, S) = S THEN S ELSE Connected(qs, Linked(qs, S))

\* The caller's autoFlush call returns in this step.
AutoFlushReturns == ret'.op = "autoFlush" /\ ret.result = 0 /\ ret'.result # 0

\* C13: when autoFlush(d) returns, every query linked to the receiver through
\* parent and children references has setting d; and a query derived by
\* clone(), as every builder call does, has the setting of its receiver.
C13_SettingSharedByConnectedSet ==
  [][/\ AutoFlushReturns
          => \A i \in Connected(queries', {ret'.recv}) :
               queries'[i].flushDelay = DelayOf(ret'.arg)
     /\ Derived
          => queries'[ret'.result].flushDelay = queries'[ret'.recv].flushDelay]_vars

\* C20: every autoFlush call returns: a call in progress leads to an empty
\* stack; meanwhile the recursion is never deeper than one call per query
\* plus one and enters each query at most once per query plus once; on return
\* the receiver's setting is d, true when d was omitted.
C20_AutoFlushTerminates ==
  /\ [](/\ Len(stack) <= Len(queries) + 1
        /\ \A i \in 1..Len(visits) : visits[i] <= Len(queries) + 1
        /\ (ret.op = "autoFlush" /\ ret.result # 0)
             => /\ stack = << >>
                /\ ret.result = ret.recv
                /\ queries[ret.recv].flushDelay = DelayOf(ret.arg))
  /\ (stack # << >>) ~> (stack = << >>)

\* A call on a child whose parent has it and a second child among its
\* children: every query changes, the receiver is entered twice.
C20_Witness ==
  /\ stack = << >>
  /\ ret.op = "autoFlush"
  /\ ret.result # 0
  /\ ret.arg = DelayUndefined
  /\ Len(queries) = 3
  /\ queries[1].children = {2, 3}
  /\ ret.recv = 2
  /\ visits[2] = 2
  /\ \A i \in 1..3 : queries[i].flushDelay = DelayTrue

\* C17: a future of get() is resolved with the empty QuerySnapshot exactly
\* when the results computed at the flush have no record.
C17_EmptyWrapperIffNoResults ==
  \A p \in 1..Len(promises) :
    promises[p].state = "resolved"
      => ((promises[p].wrapper = "empty") <=> (promises[p].value = << >>))

\* C18, for flushed get() calls: with the data unchanged, the results a
\* future was resolved with are the results its query evaluates to at any
\* later time, and two futures of one query, or of two queries with the same
\* data, sort keys, limit and cursor, carry the same results in the same
\* order.
C18_FlushedGetsAgree ==
  /\ \A p \in 1..Len(promises) :
       promises[p].wrapper = "results"
         => promises[p].value = Results(queries[promises[p].q])
  /\ \A p1, p2 \in 1..Len(promises) :
       LET q1 == queries[promises[p1].q]
           q2 == queries[promises[p2].q]
       IN (/\ promises[p1].state = "resolved"
           /\ promises[p2].state = "resolved"
           /\ q1.data = q2.data
           /\ q1.orderedProperties = q2.orderedProperties
           /\ q1.orderedDirections = q2.orderedDirections
           /\ q1.limited = q2.limited
           /\ q1.start = q2.start)
            => promises[p1].value = promises[p2].value

(***************************************************************************)
(* Evaluation as an operation: _results() called on the queries of a chain *)
(* of builder calls that sort, set a cursor, limit and clone.              *)
(***************************************************************************)
MaxChain == 4        \* query objects in a chain that is evaluated

ChainArgs ==
  { [op |-> "orderBy", id |-> ""], [op |-> "limit", id |-> ""],
    [op |-> "startAfter", id |-> "a"], [op |-> "clone", id |-> ""] }

\* _results(), had the cursor's finder kept its flag from one evaluation to
\* the next: once an evaluation has passed the reference key, the finder
\* lets every record through.
EvaluateStickyCursor(s, q) ==
  LET seen == \E i \in 1..Len(s.queries[q].data) :
                s.queries[q].data[i].key = s.queries[q].start.id
  IN [s EXCEPT !.ret = [Returned("_results", q, 0) EXCEPT !.arg = Results(s.queries[q])],
               !.queries[q].start = IF @.set /\ seen THEN NoCursor ELSE @]

\* A call of _results() on query q: ret.arg is the object returned.
Evaluate(s, q) ==
  [s EXCEPT !.ret = [Returned("_results", q, 0) EXCEPT !.arg = Results(s.queries[q])]]

DoDeriveChain ==
  \E q \in Qs, d \in ChainArgs :
    /\ Len(queries) < MaxChain
    /\ Becomes(Derive(Now, q, d))

DoResults ==
  \E q \in Qs : Becomes(Evaluate(Now, q))

NextEval == DoDeriveChain \/ DoResults

SpecEval == InitGraph /\ [][NextEval]_vars

\* Two queries with the same data, sort keys, limit and cursor.
SameQuery(q1, q2) ==
  /\ q1.data = q2.data
  /\ q1.orderedProperties = q2.orderedProperties
  /\ q1.orderedDirections = q2.orderedDirections
  /\ q1.limited = q2.limited
  /\ q1.start = q2.start

====
